---- MODULE Spec2Model ----
(***************************************************************************)
(* Model of the crypto price tracker (tracker.go, report.go): the          *)
(* per-currency pipeline  getPriceData -> writePriceData, the Bank of      *)
(* Israel rate lookup with its cache and backward retry, the moving        *)
(* average pass and the merge of the batch into the report sheets.         *)
(*                                                                         *)
(* time.Time values are integers counting half days ("ticks") from         *)
(* 2024-01-01T00:00, float64 rates and closes are small naturals, and an   *)
(* average is kept as the exact fraction sum/count the library divides.    *)
(***************************************************************************)
EXTENDS Integers, Sequences, FiniteSets, TLC

(* ------------------------------ bounds --------------------------------- *)

\* The averaging window.  The source sets 14 (tracker.go:353); the model
\* scales it down so that every series around the window can be enumerated.
AverageDays == 2

\* Ticks per calendar day: a time.Time carries a time of day.
TicksPerDay == 2

\* The newest calendar day (of January 2024) a fetched series may start at.
LastDay == 25

(* ------------------------- program constants --------------------------- *)

\* getFromIsraelBank(date, 20)
RetryBudget == 20

(* ------------------------------ inputs --------------------------------- *)

\* config.json: the configured currencies, in order.
Configs == { <<"BTC", "BTC">>, <<"BTC", "ETH">> }

CurrencyNames == {"BTC", "ETH"}

\* Close prices of a quote; 0 is a missing close.
Closes == {0, 1}

\* The close of every quote but the newest in the responses of a run.
SettledClose == CHOOSE c \in Closes : c > 0

\* OBS_VALUE of a 200 response; 0 is what an empty or malformed body decodes to.
BankRates == {0, 3}

\* Timestamps of the newest quote of a response.
StartTimes == { (LastDay - 2) * TicksPerDay, (LastDay - 1) * TicksPerDay,
                (LastDay - 1) * TicksPerDay + 1 }

\* Lengths of a market-data response, one of them below the window.
SeriesLens == (AverageDays - 1)..(AverageDays + 1)

(* ----------------------------- time.Time ------------------------------- *)

\* date.Day() of a January 2024 time.
DayOf(t) == (t \div TicksPerDay) + 1

\* strconv.Itoa with the leading zero the layout "02" asks for.
TwoDigits(n) == IF n < 10 THEN "0" \o ToString(n) ELSE ToString(n)

\* date.Format("2006-01-02"): the time of day is dropped.
FormatDate(t) == "2024-01-" \o TwoDigits(DayOf(t))

\* The same date again: date.AddDate(0, 0, 0).
SameDay(t) == t

\* date.AddDate(0, 0, -1)
PrevDay(t) == t - TicksPerDay

(* ------------------------ market-data responses ------------------------ *)

\* A quote of the market-data source (parseData); open, high, low, volume
\* and market cap are carried through the program untouched and left out.
Quote(t, c) == [date |-> t, close |-> c]

\* The quotes of a response, newest first (interval=daily): the newest quote
\* is at t with close c, the second one `gap` ticks older (the newest quote
\* may be one of the running day), every later one a day older than the one
\* before it.
Series(t, gap, c, n) ==
    [q \in 1..n |-> IF q = 1 THEN Quote(t, c)
                    ELSE Quote(t - gap - (q - 2) * TicksPerDay, SettledClose)]

Responses ==
    { Series(t, gap, c, n) :
        t \in StartTimes, gap \in {1, TicksPerDay}, c \in Closes, n \in SeriesLens }

(* --------------------------- moving average ---------------------------- *)

\* movingaverage.New(window)
maNew(window) ==
    [ Window |-> window, values |-> [x \in 1..window |-> 0],
      valPos |-> 0, slotsFilled |-> FALSE ]

\* (*MovingAverage).Add
maAdd(m, val) ==
    LET pos == (m.valPos + 1) % m.Window
    IN  [ m EXCEPT !.values[m.valPos + 1] = val,
                   !.valPos = pos,
                   !.slotsFilled = m.slotsFilled \/ pos = 0 ]

RECURSIVE SumTo(_, _)
SumTo(values, c) == IF c = 0 THEN 0 ELSE values[c] + SumTo(values, c - 1)

\* A float64 result kept exact: num / den.
Frac(n, d) == [num |-> n, den |-> d]

Zero == Frac(0, 1)

\* (*MovingAverage).Avg: the mean of the filled slots, 0 for an empty register.
maAvg(m) ==
    LET c == IF m.slotsFilled THEN m.Window ELSE m.valPos
    IN  IF c = 0 THEN Zero ELSE Frac(SumTo(m.values, c), c)

(* ------------------------------- report -------------------------------- *)

\* xlsx.NewFile(): no sheet has a row.
EmptyReport == [c \in CurrencyNames |-> <<>>]

\* The header row AddCurrency writes; its first cell is headers[0].Name.
HeaderRow == [date |-> "Date"]

\* Report.AddCurrency: the sheet named after the currency, created with the
\* header row when the file has none.
AddCurrency(rep, name) ==
    IF rep[name] = <<>> THEN [rep EXCEPT ![name] = <<HeaderRow>>] ELSE rep

\* date.Format("02/01/06"), the layout of the second date cell of a row.
FormatPriorityDate(t) == TwoDigits(DayOf(t)) \o "/01/24"

\* AddData with the two date cells swapped: the first cell is written in the
\* layout of the accounting system.
AddDataPriorityDateFirst(rep, name, p) ==
    [rep EXCEPT ![name] = Append(@, [ date    |-> FormatPriorityDate(p.priceData.date),
                                      close   |-> p.priceData.close,
                                      average |-> p.average,
                                      ratio   |-> p.shekelUsdRatio ])]

\* CurrencySheet.AddData: one row appended; the cells kept are the date
\* (cell 0), the close, the N days average and the dollar rate.
AddData(rep, name, p) ==
    [rep EXCEPT ![name] = Append(@, [ date    |-> FormatDate(p.priceData.date),
                                      close   |-> p.priceData.close,
                                      average |-> p.average,
                                      ratio   |-> p.shekelUsdRatio ])]

\* The scan comparing the last row only.
RowExistsLastRow(rows, p) ==
    Len(rows) >= 1 /\ rows[Len(rows)].date = FormatDate(p.priceData.date)

\* The scan stopping one row short of the end of the sheet.
RowExistsBelowLast(rows, p) ==
    \E r \in 1..(Len(rows) - 1) : rows[r].date = FormatDate(p.priceData.date)

\* The duplicate scan of writePriceData: some row's first cell is the
\* formatted date of the record.
RowExists(rows, p) ==
    \E r \in 1..Len(rows) : rows[r].date = FormatDate(p.priceData.date)

(* -------------------------------- state -------------------------------- *)

VARIABLES
    pc,                \* where the run is
    config,            \* currencies.Currencies of this run
    priorityEndpoint,  \* TRUE when --priorityEndpoint is set
    idx,               \* index of the currency main is processing
    data,              \* the series getPriceData returned
    report,            \* Crypto-HistoricalPrice.xlsx: sheet name -> rows
    delta,             \* the delta report of this run's window
    cache,             \* shekelUsdRatioCache
    i, j, ma,          \* the first loop of writePriceData
    fullPriceData,     \* the enriched batch
    k,                 \* the second loop of writePriceData
    date, retries,     \* the arguments of the running getFromIsraelBank call
    requests,          \* dates queried at the bank by the running or last lookup
    response,          \* what the bank answered last
    forwards,          \* dates of the forwarding calls of the running merge
    status,            \* outcome of the forwarding call of the record at hand
    appended,          \* records appended by the running merge, in order
    base,              \* the sheet as the running merge found it
    merged,            \* per sheet: the series and rows of the last completed merge
    parsed,            \* what parseData gave the last getPriceData
    err,               \* the error returned to main
    saveFailed,        \* a Save of the primary report failed in AddData, this merge
    sheet              \* the primary *CurrencySheet of writePriceData: "open" or "nil"

procVars  == <<pc, config, priorityEndpoint, idx, data>>
passVars  == <<i, j, ma, fullPriceData, k>>
bankVars  == <<date, retries, requests, response>>
mergeVars == <<forwards, status, appended, base, merged>>
auxVars   == <<parsed, err, saveFailed, sheet>>

vars == <<pc, config, priorityEndpoint, idx, data, report, delta, cache,
          i, j, ma, fullPriceData, k, date, retries, requests, response,
          forwards, status, appended, base, merged, parsed, err, saveFailed,
          sheet>>

EmptyCache == [x \in {} |-> 0]

\* What client.Do and the decoding of the body gave: "unavailable" is a failed
\* request or a status other than 200, "unreadable" a body ReadAll fails on,
\* "ok" a 200 response decoded into OBS_VALUE.
BankResponse(st, v) == [status |-> st, value |-> v]

NoResponse == BankResponse("none", 0)

NoMerge == [c \in CurrencyNames |-> [series |-> <<>>, rows |-> <<>>]]

\* The currency main is processing.
Currency == config[idx]

\* A fresh process: nothing fetched, the cache empty.
Start ==
    /\ pc = "main"
    /\ idx = 1
    /\ config \in Configs
    /\ priorityEndpoint \in BOOLEAN
    /\ data = <<>>
    /\ cache = EmptyCache
    /\ i = 0 /\ j = 0 /\ k = 0
    /\ ma = maNew(AverageDays)
    /\ fullPriceData = <<>>
    /\ date = 0 /\ retries = 0
    /\ requests = <<>>
    /\ response = NoResponse
    /\ forwards = <<>>
    /\ status = "none"
    /\ appended = <<>>
    /\ base = <<>>
    /\ parsed = <<>>
    /\ err = "none"
    /\ saveFailed = FALSE
    /\ sheet = "open"

Init ==
    /\ Start
    /\ report = EmptyReport
    /\ delta = EmptyReport
    /\ merged = NoMerge

(* ------------------------------- actions ------------------------------- *)

\* getPriceData returns an error: the request or the reading of the body
\* fails, the status is not 200, or the body is not JSON.
FetchError ==
    /\ pc = "main"
    /\ idx <= Len(config)
    /\ pc' = "failed"
    /\ UNCHANGED <<config, priorityEndpoint, idx, data, report, delta,
                   cache, passVars, bankVars, mergeVars>>
    /\ parsed' = <<>>
    /\ err' = "fetch"
    /\ UNCHANGED <<saveFailed, sheet>>

\* A 200 response of JSON that is not the expected payload.  Without "data",
\* "quotes" or a numeric field of a quote a type assertion panics (lines
\* 590-591, 439-451); a timestamp of another layout is log.Fatal (line 444).
\* The process dies in getPriceData and no error value reaches main.
FetchMalformed(how) ==
    /\ pc = "main"
    /\ idx <= Len(config)
    /\ pc' = how
    /\ parsed' = <<>>
    /\ UNCHANGED <<config, priorityEndpoint, idx, data, report, delta,
                   cache, passVars, bankVars, mergeVars, err, saveFailed,
                   sheet>>

\* A fetch that opens the sheets of the currency before it looks at the data.
FetchSheetFirst(r) ==
    /\ pc = "main"
    /\ idx <= Len(config)
    /\ IF Len(r) < AverageDays
         THEN pc' = "failed" /\ data' = data /\ err' = "short"
         ELSE pc' = "addCurrency" /\ data' = r /\ err' = err
    /\ parsed' = r
    /\ report' = AddCurrency(report, Currency)
    /\ delta' = AddCurrency(delta, Currency)
    /\ UNCHANGED <<config, priorityEndpoint, idx,
                   cache, passVars, bankVars, mergeVars,
                   saveFailed, sheet>>

\* getPriceData parses a response; fewer than AverageDays points is an error.
Fetch(r) ==
    /\ pc = "main"
    /\ idx <= Len(config)
    /\ IF Len(r) < AverageDays
         THEN pc' = "failed" /\ data' = data /\ err' = "short"
         ELSE pc' = "addCurrency" /\ data' = r /\ err' = err
    /\ parsed' = r
    /\ UNCHANGED <<config, priorityEndpoint, idx, report, delta,
                   cache, passVars, bankVars, mergeVars,
                   saveFailed, sheet>>

\* writePriceData, up to the first loop: both sheets are opened or created.
\* AddCurrency can fail where it has to add the sheet.  The err of the
\* primary report is overwritten by the one of the delta report: when only
\* the primary one failed, writePriceData goes on with a nil sheet.
OpenSheets ==
    /\ pc = "addCurrency"
    /\ \E okPrimary, okDelta \in BOOLEAN :
          /\ report[Currency] # <<>> => okPrimary
          /\ delta[Currency] # <<>> => okDelta
          /\ report' = IF okPrimary THEN AddCurrency(report, Currency)
                                    ELSE report
          /\ delta' = IF okDelta THEN AddCurrency(delta, Currency) ELSE delta
          /\ sheet' = IF okPrimary THEN "open" ELSE "nil"
          /\ IF okDelta
               THEN /\ pc' = "loop1"
                    /\ err' = err
                    /\ i' = Len(data)
                    /\ j' = 0
                    /\ ma' = maNew(AverageDays)
                    /\ fullPriceData' = <<>>
               ELSE /\ pc' = "failed"
                    /\ err' = "sheet"
                    /\ UNCHANGED <<i, j, ma, fullPriceData>>
    /\ forwards' = <<>>
    /\ status' = "none"
    /\ appended' = <<>>
    /\ base' = report'[Currency]
    /\ saveFailed' = FALSE
    /\ UNCHANGED <<config, priorityEndpoint, idx, data, cache, k,
                   bankVars, merged, parsed>>

\* The record the first loop is at.
Day == data[i]

\* The threshold taken as "at least AverageDays".
AverageStepAtLeast(m, n, e) ==
    LET valid == e.close > 0
        m2    == IF valid THEN maAdd(m, e.close) ELSE m
        n2    == IF valid THEN n + 1 ELSE n
    IN  [ ma |-> m2, j |-> n2,
          average |-> IF n2 >= AverageDays THEN maAvg(m2) ELSE Zero ]

\* The average taken before the close of the day is added.
AverageStepBeforeAdd(m, n, e) ==
    LET valid == e.close > 0
        m2    == IF valid THEN maAdd(m, e.close) ELSE m
        n2    == IF valid THEN n + 1 ELSE n
    IN  [ ma |-> m2, j |-> n2,
          average |-> IF n2 > AverageDays THEN maAvg(m) ELSE Zero ]

\* Every close added and counted, without the test of line 635.
AverageStepAnyClose(m, n, e) ==
    LET m2 == maAdd(m, e.close)
        n2 == n + 1
    IN  [ ma |-> m2, j |-> n2,
          average |-> IF n2 > AverageDays THEN maAvg(m2) ELSE Zero ]

\* Lines 635-645: a positive close enters the moving average and counts; the
\* average is taken once more than AverageDays closes were counted.
AverageStep(m, n, e) ==
    LET valid == e.close > 0
        m2    == IF valid THEN maAdd(m, e.close) ELSE m
        n2    == IF valid THEN n + 1 ELSE n
    IN  [ ma |-> m2, j |-> n2,
          average |-> IF n2 > AverageDays THEN maAvg(m2) ELSE Zero ]

\* An iteration that keeps a record only when its average is available.
ProcessDayAveragedOnly(e, shekelUsdRatio) ==
    LET step == AverageStep(ma, j, e)
    IN  /\ ma' = step.ma
        /\ j' = step.j
        /\ fullPriceData' =
              IF step.average = Zero
                THEN fullPriceData
                ELSE Append(fullPriceData,
                            [ priceData      |-> e,
                              average        |-> step.average,
                              shekelUsdRatio |-> shekelUsdRatio ])
        /\ i' = i - 1

\* The rest of an iteration of the first loop, once the rate is known: the
\* enriched record is appended to the batch (line 647).
ProcessDay(e, shekelUsdRatio) ==
    LET step == AverageStep(ma, j, e)
    IN  /\ ma' = step.ma
        /\ j' = step.j
        /\ fullPriceData' = Append(fullPriceData,
                                   [ priceData      |-> e,
                                     average        |-> step.average,
                                     shekelUsdRatio |-> shekelUsdRatio ])
        /\ i' = i - 1

\* The lookup keyed by the time of day as well.
CacheHitExactTime(t) == ToString(t) \in DOMAIN cache

\* The rate stored under the date the bank answered for.
CacheStoreResolvedDate(t, shekelUsdRatio) ==
    [x \in DOMAIN cache \cup {FormatDate(date)} |->
        IF x = FormatDate(date) THEN shekelUsdRatio ELSE cache[x]]

\* shekelUsdRatioCache[formattedDate] exists
CacheHit(t) == FormatDate(t) \in DOMAIN cache

\* The rate stored under the date asked for and under the date the bank
\* answered for.
CacheStoreBothDates(t, shekelUsdRatio) ==
    [x \in DOMAIN cache \cup {FormatDate(t), FormatDate(date)} |->
        IF x \in {FormatDate(t), FormatDate(date)}
          THEN shekelUsdRatio ELSE cache[x]]

\* The cache replaced by a map that holds the new entry alone.
CacheStoreFresh(t, shekelUsdRatio) ==
    [x \in {FormatDate(t)} |-> shekelUsdRatio]

\* shekelUsdRatioCache[formattedDate] = shekelUsdRatio
CacheStore(t, shekelUsdRatio) ==
    [x \in DOMAIN cache \cup {FormatDate(t)} |->
        IF x = FormatDate(t) THEN shekelUsdRatio ELSE cache[x]]

\* One iteration of the first loop whose rate is in the cache.
Loop1Hit ==
    /\ pc = "loop1"
    /\ i >= 1
    /\ CacheHit(Day.date)
    /\ ProcessDay(Day, cache[FormatDate(Day.date)])
    /\ requests' = <<>>
    /\ response' = NoResponse
    /\ UNCHANGED <<procVars, report, delta, cache, k, date, retries,
                   mergeVars,
                   auxVars>>

\* One iteration of the first loop whose rate is not cached:
\* getFromIsraelBank(date, 20) is called.
Loop1Miss ==
    /\ pc = "loop1"
    /\ i >= 1
    /\ ~CacheHit(Day.date)
    /\ pc' = "bank"
    /\ date' = Day.date
    /\ retries' = RetryBudget
    /\ requests' = <<>>
    /\ response' = NoResponse
    /\ UNCHANGED <<config, priorityEndpoint, idx, data, report, delta,
                   cache, passVars, mergeVars,
                   auxVars>>

\* getFromIsraelBank entered with no retry left: panic.
BankPanic ==
    /\ pc = "bank"
    /\ retries < 1
    /\ pc' = "panicked"
    /\ UNCHANGED <<config, priorityEndpoint, idx, data, report, delta,
                   cache, passVars, bankVars, mergeVars,
                   auxVars>>

\* The request fails or is answered with a status other than 200: the call
\* recurses on the day before with one retry less.
BankUnavailable ==
    /\ pc = "bank"
    /\ retries >= 1
    /\ requests' = Append(requests, FormatDate(date))
    /\ response' = BankResponse("unavailable", 0)
    /\ date' = PrevDay(date)
    /\ retries' = retries - 1
    /\ UNCHANGED <<procVars, report, delta, cache, passVars, mergeVars,
                   auxVars>>

\* A 200 response whose body cannot be read: the error goes up to main.
BankReadError ==
    /\ pc = "bank"
    /\ retries >= 1
    /\ requests' = Append(requests, FormatDate(date))
    /\ response' = BankResponse("unreadable", 0)
    /\ pc' = "failed"
    /\ UNCHANGED <<config, priorityEndpoint, idx, data, report, delta,
                   cache, passVars, date, retries, mergeVars,
                   parsed, saveFailed, sheet>>
    /\ err' = "read"

\* A single loop: the row of a day appended as soon as its rate is known.
BankRateAppendsRow(v) ==
    /\ pc = "bank"
    /\ retries >= 1
    /\ requests' = Append(requests, FormatDate(date))
    /\ response' = BankResponse("ok", v)
    /\ cache' = CacheStore(Day.date, v)
    /\ ProcessDay(Day, v)
    /\ report' = AddData(report, Currency,
                         fullPriceData'[Len(fullPriceData')])
    /\ date' = 0
    /\ retries' = 0
    /\ pc' = "loop1"
    /\ UNCHANGED <<config, priorityEndpoint, idx, data, delta,
                   k, mergeVars, auxVars>>

\* A 200 response: OBS_VALUE is returned, stored in the cache under the date
\* of the day being processed, and the iteration completes.
BankRate(v) ==
    /\ pc = "bank"
    /\ retries >= 1
    /\ requests' = Append(requests, FormatDate(date))
    /\ response' = BankResponse("ok", v)
    /\ cache' = CacheStore(Day.date, v)
    /\ ProcessDay(Day, v)
    /\ date' = 0
    /\ retries' = 0
    /\ pc' = "loop1"
    /\ UNCHANGED <<config, priorityEndpoint, idx, data, report, delta,
                   k, mergeVars,
                   auxVars>>

\* The first loop is over: the second loop starts at the end of the batch.
Loop1Done ==
    /\ pc = "loop1"
    /\ i = 0
    /\ k' = Len(fullPriceData)
    /\ requests' = <<>>
    /\ response' = NoResponse
    /\ pc' = "loop2"
    /\ UNCHANGED <<config, priorityEndpoint, idx, data, report, delta,
                   cache, i, j, ma, fullPriceData, date, retries, mergeVars,
                   auxVars>>

\* The record the second loop is at.
Record == fullPriceData[k]

\* The second loop reads sheet.sheet.Rows of a nil sheet: a nil pointer
\* dereference, the process dies.
SheetNilDeref ==
    /\ pc = "loop2"
    /\ k >= 1
    /\ sheet = "nil"
    /\ pc' = "nilDeref"
    /\ UNCHANGED <<config, priorityEndpoint, idx, data, report, delta,
                   cache, passVars, bankVars, mergeVars, auxVars>>

\* A skip that still gives the delta sheet the row when it has none of
\* that date.
MergeSkipFillsDelta ==
    /\ pc = "loop2"
    /\ k >= 1
    /\ sheet = "open"
    /\ RowExists(report[Currency], Record)
    /\ delta' = IF RowExists(delta[Currency], Record)
                  THEN delta
                  ELSE AddData(delta, Currency, Record)
    /\ k' = k - 1
    /\ UNCHANGED <<procVars, report, cache, i, j, ma, fullPriceData,
                   bankVars, mergeVars, auxVars>>

\* The rows of the date of the record brought up to date with the record.
MergeSkipRefreshing ==
    /\ pc = "loop2"
    /\ k >= 1
    /\ sheet = "open"
    /\ RowExists(report[Currency], Record)
    /\ report' = [report EXCEPT ![Currency] =
                     [r \in 1..Len(@) |->
                        IF @[r].date = FormatDate(Record.priceData.date)
                          THEN [ date    |-> @[r].date,
                                 close   |-> Record.priceData.close,
                                 average |-> Record.average,
                                 ratio   |-> Record.shekelUsdRatio ]
                          ELSE @[r]]]
    /\ k' = k - 1
    /\ UNCHANGED <<procVars, delta, cache, i, j, ma, fullPriceData,
                   bankVars, mergeVars, auxVars>>

\* The date of the record is in the sheet: the record is skipped.
MergeSkip ==
    /\ pc = "loop2"
    /\ k >= 1
    /\ sheet = "open"
    /\ RowExists(report[Currency], Record)
    /\ k' = k - 1
    /\ UNCHANGED <<procVars, report, delta, cache, i, j, ma, fullPriceData,
                   bankVars, mergeVars,
                   auxVars>>

\* The forwarding call made for every record, ahead of the duplicate scan.
MergeForwardEveryRecord(st) ==
    /\ pc = "loop2"
    /\ k >= 1
    /\ sheet = "open"
    /\ priorityEndpoint
    /\ forwards' = Append(forwards, Record.priceData.date)
    /\ status' = st
    /\ pc' = CASE st = "down" -> "fatal"
               [] st = "garbled" -> "forwardPanic"
               [] OTHER -> "addData"
    /\ UNCHANGED <<config, priorityEndpoint, idx, data, report, delta,
                   cache, passVars, bankVars, appended, base, merged,
                   auxVars>>

\* performImportToPriority for a new record: 201 ("created"); another status
\* whose body is printed ("rejected"); another status whose body has a FORM
\* object without an InterfaceErrors object ("garbled"), where the type
\* assertion of line 767 panics; or a failed POST ("down"), which is log.Fatal.
MergeForward(st) ==
    /\ pc = "loop2"
    /\ k >= 1
    /\ sheet = "open"
    /\ ~RowExists(report[Currency], Record)
    /\ priorityEndpoint
    /\ forwards' = Append(forwards, Record.priceData.date)
    /\ status' = st
    /\ pc' = CASE st = "down" -> "fatal"
               [] st = "garbled" -> "forwardPanic"
               [] OTHER -> "addData"
    /\ UNCHANGED <<config, priorityEndpoint, idx, data, report, delta,
                   cache, passVars, bankVars, appended, base, merged,
                   auxVars>>

\* A record without an average passed over instead of appended.
MergeAppendAveragedOnly ==
    /\ \/ pc = "addData"
       \/ /\ pc = "loop2"
          /\ k >= 1
          /\ sheet = "open"
          /\ ~RowExists(report[Currency], Record)
          /\ ~priorityEndpoint
    /\ IF Record.average = Zero
         THEN UNCHANGED <<report, delta, appended>>
         ELSE /\ report' = AddData(report, Currency, Record)
              /\ delta' = AddData(delta, Currency, Record)
              /\ appended' = Append(appended, Record)
    /\ status' = "none"
    /\ k' = k - 1
    /\ pc' = "loop2"
    /\ UNCHANGED <<config, priorityEndpoint, idx, data, cache, i, j, ma,
                   fullPriceData, bankVars, forwards, base, merged,
                   parsed, err, sheet>>
    /\ saveFailed' \in {saveFailed, TRUE}

\* An append decided by a scan of the rows the sheet had when the merge began.
MergeAppendStaleScan ==
    /\ \/ pc = "addData"
       \/ /\ pc = "loop2"
          /\ k >= 1
          /\ sheet = "open"
          /\ ~RowExists(base, Record)
          /\ ~priorityEndpoint
    /\ report' = AddData(report, Currency, Record)
    /\ delta' = AddData(delta, Currency, Record)
    /\ appended' = Append(appended, Record)
    /\ status' = "none"
    /\ k' = k - 1
    /\ pc' = "loop2"
    /\ UNCHANGED <<config, priorityEndpoint, idx, data, cache, i, j, ma,
                   fullPriceData, bankVars, forwards, base, merged,
                   parsed, err, sheet>>
    /\ saveFailed' \in {saveFailed, TRUE}

\* sheet.AddData and sheet_forDelta.AddData for a new record.  AddData drops
\* the result of its deferred Save and returns nil, whether the file was
\* written or not.
MergeAppend ==
    /\ \/ pc = "addData"
       \/ /\ pc = "loop2"
          /\ k >= 1
          /\ sheet = "open"
          /\ ~RowExists(report[Currency], Record)
          /\ ~priorityEndpoint
    /\ report' = AddData(report, Currency, Record)
    /\ delta' = AddData(delta, Currency, Record)
    /\ appended' = Append(appended, Record)
    /\ status' = "none"
    /\ k' = k - 1
    /\ pc' = "loop2"
    /\ UNCHANGED <<config, priorityEndpoint, idx, data, cache, i, j, ma,
                   fullPriceData, bankVars, forwards, base, merged,
                   parsed, err, sheet>>
    /\ saveFailed' \in {saveFailed, TRUE}

\* writePriceData and processCurrency return nil: main takes the next currency.
MergeDone ==
    /\ pc = "loop2"
    /\ k = 0
    /\ merged' = [merged EXCEPT ![Currency] =
                     [series |-> data, rows |-> report[Currency]]]
    /\ idx' = idx + 1
    /\ pc' = "main"
    /\ UNCHANGED <<config, priorityEndpoint, data, report, delta, cache,
                   passVars, bankVars, forwards, status, appended, base,
                   auxVars>>

\* Every currency is processed: "Finished...", exit status 0.
Finish ==
    /\ pc = "main"
    /\ idx > Len(config)
    /\ pc' = "finished"
    /\ UNCHANGED <<config, priorityEndpoint, idx, data, report, delta,
                   cache, passVars, bankVars, mergeVars,
                   auxVars>>

Next ==
    \/ FetchError
    \/ \E how \in {"fetchPanic", "fetchFatal"} : FetchMalformed(how)
    \/ \E r \in Responses : Fetch(r)
    \/ OpenSheets
    \/ Loop1Hit
    \/ Loop1Miss
    \/ BankPanic
    \/ BankUnavailable
    \/ BankReadError
    \/ \E v \in BankRates : BankRate(v)
    \/ Loop1Done
    \/ SheetNilDeref
    \/ MergeSkip
    \/ \E st \in {"created", "rejected", "garbled", "down"} : MergeForward(st)
    \/ MergeAppend
    \/ MergeDone
    \/ Finish

Spec == Init /\ [][Next]_vars

(* ------------- the moving-average pass on arbitrary closes -------------- *)

\* Close prices of the series the pass is examined on.
PassCloses == {0, 10, 20, 30}

\* Lengths of those series.
PassLens == AverageDays..(AverageDays + 3)

\* A daily series, newest first, with any of the closes on each day.
PassSeries ==
    UNION { { [q \in 1..n |-> Quote((LastDay - q) * TicksPerDay, c[q])] :
                c \in [1..n -> PassCloses] } : n \in PassLens }

\* The first currency of a run at the entry of the first loop of
\* writePriceData: the series is fetched and the sheets are created.
InitPass ==
    /\ pc = "loop1"
    /\ idx = 1
    /\ config \in Configs
    /\ priorityEndpoint = FALSE
    /\ data \in PassSeries
    /\ report = AddCurrency(EmptyReport, config[1])
    /\ delta = AddCurrency(EmptyReport, config[1])
    /\ cache = EmptyCache
    /\ i = Len(data) /\ j = 0 /\ k = 0
    /\ ma = maNew(AverageDays)
    /\ fullPriceData = <<>>
    /\ date = 0 /\ retries = 0
    /\ requests = <<>>
    /\ response = NoResponse
    /\ forwards = <<>>
    /\ status = "none"
    /\ appended = <<>>
    /\ base = report[config[1]]
    /\ merged = NoMerge
    /\ parsed = data
    /\ err = "none"
    /\ saveFailed = FALSE
    /\ sheet = "open"

\* The first loop with a bank that answers every request.
NextPass ==
    \/ Loop1Miss
    \/ \E v \in BankRates : BankRate(v)
    \/ Loop1Done

SpecPass == InitPass /\ [][NextPass]_vars

\* A primary report file left by an earlier run: the sheet of the first
\* currency holds the header and the rows of a series of AverageDays settled
\* days, in the order they were appended, each with the sentinel average.
PriorSeries ==
    Series((LastDay - 2) * TicksPerDay, TicksPerDay, SettledClose, AverageDays)

PriorRate == CHOOSE v \in BankRates : v > 0

PriorReport ==
    [EmptyReport EXCEPT !["BTC"] =
        <<HeaderRow>> \o [n \in 1..AverageDays |->
                            [ date    |-> FormatDate(PriorSeries[n].date),
                              close   |-> PriorSeries[n].close,
                              average |-> Zero,
                              ratio   |-> PriorRate ]]]

\* A fresh process that opens the primary report of an earlier run and a
\* delta report that does not exist yet.
InitDelta ==
    /\ Start
    /\ report = PriorReport
    /\ delta = EmptyReport
    /\ merged = NoMerge

SpecDelta == InitDelta /\ [][Next]_vars

TypeOK ==
    /\ pc \in {"main", "addCurrency", "loop1", "bank", "loop2", "addData",
               "finished", "failed", "panicked", "fatal", "nilDeref",
               "fetchPanic", "fetchFatal", "forwardPanic"}
    /\ retries \in 0..RetryBudget
    /\ err \in {"none", "fetch", "short", "read", "sheet"}
    /\ saveFailed \in BOOLEAN
    /\ sheet \in {"open", "nil"}

(* ------------------------------ helpers -------------------------------- *)

\* writePriceData is running (or the process died inside it).
InMerge ==
    pc \in {"loop1", "bank", "loop2", "addData", "panicked", "fatal", "nilDeref",
            "forwardPanic"}

\* The first-column values of the rows of a sheet.
DatesOf(rows) == { rows[r].date : r \in 1..Len(rows) }

\* The formatted dates of the records n of a batch with n in S.
BatchDates(batch, S) == { FormatDate(batch[n].priceData.date) : n \in S }

\* Timestamps strictly decreasing: newest first.
NewestFirst(series) ==
    \A a, b \in 1..Len(series) : a < b => series[a].date > series[b].date

\* The run has ended in failure: main was handed an error, or the process
\* died in a panic or in log.Fatal, in the fetch or in the merge.
Failed ==
    \/ err # "none"
    \/ pc \in {"panicked", "fatal", "nilDeref", "fetchPanic", "fetchFatal",
               "forwardPanic"}

\* A row below the header.
IsDataRow(row) == row.date # "Date"

\* The data rows sheet c of the primary report got since the run began.
NewRows(c) ==
    SelectSeq(SubSeq(report[c], Len(PriorReport[c]) + 1, Len(report[c])),
              IsDataRow)

\* Equality of two exact fractions.
FracEq(a, b) == a.num * b.den = b.num * a.den

IsValidClose(c) == c > 0

\* The valid closes among the first n records of the batch, oldest first.
ValidUpTo(n) ==
    SelectSeq([m \in 1..n |-> fullPriceData[m].priceData.close], IsValidClose)

\* The sum of the last w elements of a sequence of at least w numbers.
RECURSIVE SumLast(_, _)
SumLast(seq, w) ==
    IF w = 0 THEN 0 ELSE seq[Len(seq)] + SumLast(SubSeq(seq, 1, Len(seq) - 1), w - 1)

\* Record n is the first of the batch with more than AverageDays valid closes
\* up to and including it.
FirstEligible(n) ==
    /\ Len(ValidUpTo(n)) > AverageDays
    /\ \A m \in 1..(n - 1) : Len(ValidUpTo(m)) <= AverageDays

(* ------------------------------- claims -------------------------------- *)

\* C1: a merge that is given the series of the last completed merge of the
\* same sheet, and finds the sheet as that merge left it, appends no row and
\* makes no forwarding call.
C1_SecondMergeAppendsNothing ==
    (InMerge /\ merged[Currency].series = data /\ merged[Currency].rows = base)
        => (appended = <<>> /\ forwards = <<>> /\ report[Currency] = base)

\* The second merge of the same series has gone through its whole batch.
C1_Witness ==
    /\ pc = "loop2" /\ k = 0
    /\ merged[Currency].series = data
    /\ merged[Currency].rows = base
    /\ Len(base) > AverageDays
    /\ Len(fullPriceData) = Len(data)

\* C2: no two rows of a sheet of the primary report have the same first cell.
C2_NoDuplicateDates ==
    \A c \in CurrencyNames :
        \A a, b \in 1..Len(report[c]) :
            a # b => report[c][a].date # report[c][b].date

\* A merge into a sheet that had data rows has skipped a record and appended
\* another one.
C2_Witness ==
    /\ pc = "loop2"
    /\ Len(base) > 1
    /\ Len(appended) >= 1
    /\ Len(fullPriceData) - k > Len(appended)

\* C3 (as claimed): the rows one merge appends for a newest-first series are
\* appended in ascending date order.
C3_AppendedAscending ==
    NewestFirst(data) =>
        \A a, b \in 1..Len(appended) :
            a < b => DayOf(appended[a].priceData.date)
                        <= DayOf(appended[b].priceData.date)

\* C4: at every point of the second loop the merge has appended one row for
\* each date of the records gone through that was not a first-column value of
\* the sheet it found, and nothing else.
C4_AppendsExactlyNewDates ==
    pc \in {"loop2", "addData"} =>
        LET done  == BatchDates(fullPriceData, (k + 1)..Len(fullPriceData))
            fresh == done \ DatesOf(base)
        IN  /\ BatchDates(appended, 1..Len(appended)) = fresh
            /\ Len(appended) = Cardinality(fresh)
            /\ Len(report[Currency]) = Len(base) + Len(appended)
            /\ \A n \in 1..Len(appended) :
                  report[Currency][Len(base) + n].date
                      = FormatDate(appended[n].priceData.date)

\* The merge is over: of a batch overlapping the sheet, the dates already in
\* the sheet were skipped and only the newer one was appended.
C4_Witness ==
    /\ pc = "loop2" /\ k = 0
    /\ Len(appended) = 1
    /\ Len(fullPriceData) - Len(appended) >= 2
    /\ \A r \in 2..Len(base) :
          \E n \in 1..Len(fullPriceData) :
              FormatDate(fullPriceData[n].priceData.date) = base[r].date

\* C5: a lookup of a date whose day key is in the cache completes in the same
\* step with the cached value, queries the bank for nothing and leaves the
\* cache alone.
C5_HitPerformsNoRequest ==
    [][ (pc = "loop1" /\ i >= 1 /\ FormatDate(data[i].date) \in DOMAIN cache)
          => /\ pc' = "loop1"
             /\ i' = i - 1
             /\ requests' = <<>>
             /\ response' = NoResponse
             /\ cache' = cache
             /\ fullPriceData'[Len(fullPriceData')].shekelUsdRatio
                   = cache[FormatDate(data[i].date)] ]_vars

\* A day was processed from the cache: no request was made for it.
C5_Witness ==
    /\ pc = "loop1"
    /\ Len(fullPriceData) >= 1
    /\ requests = <<>>
    /\ FormatDate(fullPriceData[Len(fullPriceData)].priceData.date) \in DOMAIN cache

\* C6: the rate a miss resolves to, on whatever earlier day the bank answered,
\* is returned and stored under the date asked for; no stored rate changes
\* afterwards, and a later lookup of the date returns it without a request.
C6_MemoizedUnderRequestedDate ==
    [][ /\ (pc = "bank" /\ pc' = "loop1")
            => LET asked == FormatDate(data[i].date)
               IN  /\ DOMAIN cache' = DOMAIN cache \cup {asked}
                   /\ cache'[asked] = response'.value
                   /\ fullPriceData'[Len(fullPriceData')].shekelUsdRatio
                         = response'.value
        /\ \A x \in DOMAIN cache : x \in DOMAIN cache' /\ cache'[x] = cache[x]
        /\ (pc = "loop1" /\ i >= 1 /\ FormatDate(data[i].date) \in DOMAIN cache)
            => /\ requests' = <<>>
               /\ fullPriceData'[Len(fullPriceData')].shekelUsdRatio
                     = cache'[FormatDate(data[i].date)] ]_vars

\* A miss was just resolved after walking back at least one day: the rate is
\* in the cache under the first date asked for.
C6_Witness ==
    /\ pc = "loop1"
    /\ Len(requests) >= 2
    /\ response.status = "ok"
    /\ requests[1] \in DOMAIN cache
    /\ requests[Len(requests)] \notin DOMAIN cache
    /\ cache[requests[1]] = response.value

\* C7 (as claimed): no rate returned as resolved, and no rate in the cache,
\* is zero.
C7_NeverZeroRate ==
    /\ \A x \in DOMAIN cache : cache[x] # 0
    /\ \A n \in 1..Len(fullPriceData) : fullPriceData[n].shekelUsdRatio # 0

\* C8 (as claimed): when the bank is unavailable or reports a rate of zero,
\* the lookup goes on with the day before and one retry less.
C8_ZeroOrUnavailableWalksBack ==
    [][ (/\ pc = "bank"
         /\ \/ response'.status = "unavailable"
            \/ response'.status = "ok" /\ response'.value = 0)
          => /\ pc' = "bank"
             /\ date' = PrevDay(date)
             /\ retries' = retries - 1 ]_vars

\* C9: a record carries an average other than the sentinel only if more than
\* AverageDays valid closes were seen up to and including it; with window 2
\* and closes 0, 10, 20, 0, 30 only the last record carries one, 25.
C9_AverageOnlyPastWindow ==
    /\ \A n \in 1..Len(fullPriceData) :
          \/ Len(ValidUpTo(n)) > AverageDays
          \/ fullPriceData[n].average = Zero
    /\ (/\ AverageDays = 2
        /\ [n \in 1..Len(fullPriceData) |-> fullPriceData[n].priceData.close]
               = <<0, 10, 20, 0, 30>>)
          => /\ \A n \in 1..4 : fullPriceData[n].average = Zero
             /\ FracEq(fullPriceData[5].average, Frac(25, 1))

\* The pass is over and has produced records on both sides of the threshold,
\* one of them after a missing close.
C9_Witness ==
    /\ i = 0
    /\ \E n \in 1..Len(fullPriceData) :
          /\ fullPriceData[n].average # Zero
          /\ Len(ValidUpTo(n)) < n
    /\ \E n \in 1..Len(fullPriceData) :
          /\ fullPriceData[n].average = Zero
          /\ Len(ValidUpTo(n)) = AverageDays

\* C10 (as claimed): the average of the first eligible day is the mean of the
\* AverageDays valid closes before that day.
C10_MeanOfPriorCloses ==
    \A n \in 1..Len(fullPriceData) :
        FirstEligible(n) =>
            FracEq(fullPriceData[n].average,
                   Frac(SumLast(ValidUpTo(n - 1), AverageDays), AverageDays))

\* C10 (amended): the average of the first eligible day is the mean of the
\* last AverageDays valid closes up to that day, its own close included.
C10_MeanOfLastCloses ==
    \A n \in 1..Len(fullPriceData) :
        FirstEligible(n) =>
            FracEq(fullPriceData[n].average,
                   Frac(SumLast(ValidUpTo(n), AverageDays), AverageDays))

\* A first eligible day whose own close changes the mean.
C10_Witness ==
    \E n \in 1..Len(fullPriceData) :
        /\ FirstEligible(n)
        /\ SumLast(ValidUpTo(n), AverageDays)
              # SumLast(ValidUpTo(n - 1), AverageDays)

\* C11: a step of the main loop that fetches a response of at least one and
\* fewer than AverageDays points ends the run with the data-shape error and
\* leaves both reports as they were: no sheet is created for the currency, no
\* row is appended and no forwarding call is made.
C11_ShortResponseMutatesNothing ==
    [][(pc = "main" /\ pc' # "main" /\ Len(parsed') < AverageDays
            /\ parsed' # <<>>)
         => /\ pc' = "failed"
            /\ err' = "short"
            /\ report' = report
            /\ delta' = delta
            /\ report'[Currency] = merged[Currency].rows
            /\ forwards' = forwards
            /\ appended' = appended]_vars

\* The second currency of the configuration has no sheet yet and its fetch
\* is rejected for its length, after the first currency was merged.
C11_Witness ==
    /\ pc = "failed"
    /\ err = "short"
    /\ parsed # <<>>
    /\ Len(parsed) < AverageDays
    /\ idx = 2
    /\ config[1] # config[2]
    /\ Len(report[config[1]]) > 1
    /\ report[config[2]] = <<>>

\* C12: a forwarding call that failed (a status other than 201, or a POST
\* that could not be sent) is only logged: the run is not terminated and the
\* merge goes on to append the row of that record.
C12_ForwardFailureOnlyLogged ==
    status \in {"rejected", "garbled", "down"} =>
        /\ pc = "addData"
        /\ ENABLED MergeAppend

\* C13: once a Save of AddData has failed in a merge, the merge has stopped
\* with the error returned to the caller and the failed row is the last one
\* appended.
C13_SaveFailureAbortsMerge ==
    saveFailed => (pc = "failed" /\ err # "none")

\* C14 (as claimed): the currencies are processed in configuration order,
\* one at a time, and nothing happens for a later currency once a stage has
\* failed for one currency: no step starts in a run that was handed an error
\* or died, the main loop moves to the next currency only from a completed
\* merge, and after a Save of the merge has failed the run neither moves to
\* the next currency nor fetches for it.
C14_FailureAbortsRun ==
    [][/\ ~Failed
       /\ saveFailed => (idx' = idx /\ pc # "main")
       /\ \/ idx' = idx
          \/ idx' = idx + 1 /\ pc = "loop2" /\ k = 0 /\ pc' = "main"]_vars

\* C15: the counter and the buffer of the moving average depend on the days
\* with a positive close only.  The counter is the number of such days among
\* the records produced so far, and slot x of the ring holds the latest
\* positive close that fell on it (0 if none did): a day whose close is not
\* positive has changed neither.
C15_OnlyPositiveClosesCounted ==
    LET v == ValidUpTo(Len(fullPriceData))
        On(x) == { q \in 1..Len(v) : ((q - 1) % AverageDays) + 1 = x }
        Last(S) == CHOOSE q \in S : \A r \in S : r <= q
    IN  /\ j = Len(v)
        /\ ma.valPos = Len(v) % AverageDays
        /\ \A x \in 1..AverageDays :
              ma.values[x] = IF On(x) = {} THEN 0 ELSE v[Last(On(x))]

\* The pass has processed a day without a close after the buffer was full,
\* and a day with a close after that one.
C15_Witness ==
    /\ pc = "loop1"
    /\ \E n \in 1..(Len(fullPriceData) - 1) :
          /\ fullPriceData[n].priceData.close <= 0
          /\ Len(ValidUpTo(n)) >= AverageDays
          /\ fullPriceData[n + 1].priceData.close > 0
    /\ j < Len(fullPriceData)

\* C16: the first loop produces one enriched record for each day it has
\* processed, the n-th record being the n-th day from the end of the fetched
\* series, so the batch is in ascending date order; once every lookup has
\* succeeded and the loop is over, the batch has exactly one record per day of
\* the series, whatever the averages are.
C16_OneRecordPerDayOldestFirst ==
    InMerge =>
        /\ Len(fullPriceData) = Len(data) - i
        /\ \A n \in 1..Len(fullPriceData) :
              fullPriceData[n].priceData = data[Len(data) + 1 - n]
        /\ \A a, b \in 1..Len(fullPriceData) :
              a < b => fullPriceData[a].priceData.date
                          < fullPriceData[b].priceData.date
        /\ pc \in {"loop2", "addData", "fatal", "forwardPanic"}
              => Len(fullPriceData) = Len(data)

\* The first loop is over for a series of more than AverageDays days; the
\* batch has records with the sentinel average and a record with an average.
C16_Witness ==
    /\ pc = "loop2"
    /\ k = Len(fullPriceData)
    /\ Len(data) > AverageDays
    /\ fullPriceData[1].average = Zero
    /\ fullPriceData[Len(fullPriceData)].average # Zero

\* C17: without an endpoint no forwarding call is made.  With one, the calls
\* of a merge are, in order, one for each row appended so far, and one more
\* while the call for the record at hand is made and its row is not yet in
\* the sheet; a forwarded date was never in the sheet before its call, so a
\* skipped record has no call.
C17_ForwardOncePerNewRowBeforeAppend ==
    pc \in {"loop2", "addData", "fatal", "forwardPanic"} =>
        LET atHand == pc \in {"addData", "fatal", "forwardPanic"}
            rowsOf == [n \in 1..Len(appended) |-> appended[n].priceData.date]
        IN  /\ ~priorityEndpoint => forwards = <<>> /\ ~atHand
            /\ priorityEndpoint =>
                  forwards = IF atHand
                               THEN Append(rowsOf, Record.priceData.date)
                               ELSE rowsOf
            /\ atHand =>
                  FormatDate(Record.priceData.date) \notin DatesOf(report[Currency])
            /\ \A n \in 1..Len(forwards) :
                  FormatDate(forwards[n]) \notin DatesOf(base)

\* A merge with an endpoint is over: a record was skipped and another one was
\* forwarded and appended.
C17_Witness ==
    /\ pc = "loop2" /\ k = 0
    /\ priorityEndpoint
    /\ Len(forwards) >= 1
    /\ Len(forwards) = Len(appended)
    /\ Len(fullPriceData) > Len(forwards)

\* C18: the requests of one lookup of a date d that is not in the cache are
\* at most RetryBudget, the n-th of them for the date n-1 days before d; the
\* budget left is RetryBudget less the requests made; after RetryBudget
\* unavailable answers the lookup can only panic, and a panicked lookup has
\* made exactly RetryBudget requests.
C18_AtMostBudgetConsecutiveDays ==
    (requests # <<>> \/ pc \in {"bank", "panicked"}) =>
        LET d == IF pc = "loop1" THEN data[i + 1].date ELSE data[i].date
        IN  /\ Len(requests) <= RetryBudget
            /\ \A n \in 1..Len(requests) :
                  requests[n] = FormatDate(d - (n - 1) * TicksPerDay)
            /\ pc = "bank" =>
                  /\ retries = RetryBudget - Len(requests)
                  /\ date = d - Len(requests) * TicksPerDay
                  /\ Len(requests) = RetryBudget =>
                        /\ ENABLED BankPanic
                        /\ ~ENABLED BankUnavailable
                        /\ \A v \in BankRates : ~ENABLED BankRate(v)
            /\ pc = "panicked" =>
                  /\ Len(requests) = RetryBudget
                  /\ response.status = "unavailable"

\* A lookup has used its whole budget and panicked.
C18_Witness ==
    /\ pc = "panicked"
    /\ Len(requests) = RetryBudget
    /\ requests[1] = FormatDate(data[i].date)
    /\ requests[RetryBudget] # requests[1]

\* C19: every step keeps every entry of the cache: a day key that is in the
\* cache stays in it with the rate it had.
C19_CacheOnlyGrows ==
    [][\A x \in DOMAIN cache : x \in DOMAIN cache' /\ cache'[x] = cache[x]]_vars

\* The second currency of the run is in its first loop, the cache holds the
\* days of the first one and a new day was stored next to them.
C19_Witness ==
    /\ idx = 2
    /\ pc = "loop1"
    /\ requests # <<>>
    /\ Cardinality(DOMAIN cache) > Len(merged[config[1]].series)
    /\ \A n \in 1..Len(merged[config[1]].series) :
          FormatDate(merged[config[1]].series[n].date) \in DOMAIN cache

\* C20: no step modifies or removes a row of a sheet: every sheet keeps, at
\* the same positions, every row it had, with the same cell values.
C20_ExistingRowsUntouched ==
    [][\A c \in CurrencyNames :
          /\ Len(report'[c]) >= Len(report[c])
          /\ \A r \in 1..Len(report[c]) : report'[c][r] = report[c][r]]_vars

\* A record was skipped whose average differs from the one of the row of its
\* date, a row with the sentinel average, and the row is as it was when the
\* merge began.
C20_Witness ==
    /\ pc = "loop2"
    /\ \E n \in (k + 1)..Len(fullPriceData) :
          \E r \in 2..Len(base) :
              /\ base[r].date = FormatDate(fullPriceData[n].priceData.date)
              /\ base[r].average = Zero
              /\ fullPriceData[n].average # Zero
              /\ report[Currency][r] = base[r]

\* C21: in a merge, for every calendar date of the records the second loop
\* has gone through that was not in the sheet when the merge began, exactly
\* one row was appended, whatever the number of records of the batch with
\* that date, and at most one forwarding call was made.
C21_DuplicateDateInBatchOneRow ==
    pc \in {"loop2", "addData", "fatal", "forwardPanic"} =>
        LET done == (k + 1)..Len(fullPriceData)
            rows == report[Currency]
        IN  \A D \in BatchDates(fullPriceData, done) \ DatesOf(base) :
              /\ Cardinality({ r \in 1..Len(rows) : rows[r].date = D }) = 1
              /\ Cardinality({ n \in 1..Len(appended) :
                      FormatDate(appended[n].priceData.date) = D }) = 1
              /\ Cardinality({ n \in 1..Len(forwards) :
                      FormatDate(forwards[n]) = D }) <= 1

\* A merge with an endpoint is over; the batch had two records of one
\* calendar date that was not in the sheet, and one row and one forwarding
\* call were made for it.
C21_Witness ==
    /\ pc = "loop2" /\ k = 0
    /\ priorityEndpoint
    /\ \E a, b \in 1..Len(fullPriceData) :
          /\ a < b
          /\ FormatDate(fullPriceData[a].priceData.date)
                = FormatDate(fullPriceData[b].priceData.date)
          /\ FormatDate(fullPriceData[a].priceData.date) \notin DatesOf(base)
          /\ \E n \in 1..Len(forwards) :
                forwards[n] = fullPriceData[b].priceData.date

\* C22: in a run that opens a primary report with rows of an earlier run and
\* a new delta report, the data rows of every delta sheet are the rows the
\* primary sheet of that name got in this run, in the same order: a date that
\* is in the primary sheet gets no delta row although the delta sheet does
\* not have it.
C22_DeltaRowsAreRunsPrimaryRows ==
    \A c \in CurrencyNames :
        /\ SelectSeq(delta[c], IsDataRow) = NewRows(c)
        /\ SubSeq(report[c], 1, Len(PriorReport[c])) = PriorReport[c]

\* A merge is over in which a record was skipped for a date of the earlier
\* run that the delta sheet does not hold, and another record was appended
\* to both sheets.
C22_Witness ==
    /\ pc = "loop2" /\ k = 0
    /\ Len(appended) >= 1
    /\ NewRows(Currency) # <<>>
    /\ \E n \in 1..Len(fullPriceData) :
          /\ FormatDate(fullPriceData[n].priceData.date) \in DatesOf(base)
          /\ FormatDate(fullPriceData[n].priceData.date)
                \notin DatesOf(delta[Currency])

\* C23: while the rate lookups of a batch are running, and when one of them
\* has returned an error or has panicked, the merge of that batch has
\* appended no row to either sheet and has made no forwarding call.
C23_LookupsBeforeAppends ==
    (pc \in {"loop1", "bank", "panicked"} \/ (pc = "failed" /\ err = "read"))
        => /\ appended = <<>>
           /\ forwards = <<>>
           /\ report[Currency] = base
           /\ Len(delta[Currency]) <= 1 \/ delta[Currency] = merged[Currency].rows

\* The lookup of a later day of the batch failed after the lookup of an
\* earlier day had given a rate: the new sheet holds its header only.
C23_Witness ==
    /\ \/ pc = "panicked"
       \/ pc = "failed" /\ err = "read"
    /\ Len(fullPriceData) >= 1
    /\ fullPriceData[1].shekelUsdRatio > 0
    /\ report[Currency] = <<HeaderRow>>

\* C24: when AddCurrency of the primary report has failed, writePriceData has
\* returned the error, and no rate lookup, append or forwarding call of that
\* merge was made.
C24_PrimarySheetErrorReturned ==
    sheet = "nil" =>
        /\ pc = "failed"
        /\ err = "sheet"
        /\ requests = <<>>
        /\ fullPriceData = <<>>

\* C25: a step that changes the cache is the end of a lookup and creates one
\* entry, for the date asked for: none of the earlier dates the lookup
\* walked back through, the one the bank answered for included, gets an
\* entry by it.  A lookup of a date that has no entry, whatever lookups
\* walked through it before, goes to the bank with the whole budget.
C25_WalkedDatesNotCached ==
    [][ /\ cache' # cache =>
              /\ pc = "bank"
              /\ DOMAIN cache' \ DOMAIN cache = {FormatDate(data[i].date)}
              /\ \A n \in 2..Len(requests') :
                    requests'[n] \in DOMAIN cache' => requests'[n] \in DOMAIN cache
        /\ (pc = "loop1" /\ i >= 1
                /\ FormatDate(data[i].date) \notin DOMAIN cache)
              => /\ pc' = "bank"
                 /\ date' = data[i].date
                 /\ retries' = RetryBudget
                 /\ requests' = <<>>
                 /\ cache' = cache ]_vars

\* The lookup of the oldest day of the first currency was answered two days
\* back: the cache has the day asked for and neither of the two days walked
\* through, which a later currency can ask for.
C25_Witness ==
    /\ pc = "loop1"
    /\ idx = 1
    /\ Len(config) = 2
    /\ Len(requests) = 3
    /\ response.status = "ok"
    /\ DOMAIN cache = {requests[1]}
    /\ requests[2] # requests[1]
    /\ requests[3] # requests[2]

\* C26: a series of exactly AverageDays points is accepted by the fetch and
\* merged; every record made from it has the sentinel average; the second
\* loop still gives every record a row: when it is over every date of the
\* batch is in the sheet, every row appended has the sentinel average, and a
\* sheet that was new has one row for each calendar date of the series.
C26_WindowSizedSeriesAllSentinel ==
    (Len(data) = AverageDays /\ pc \in {"loop1", "bank", "loop2", "addData"}) =>
        /\ parsed = data
        /\ \A n \in 1..Len(fullPriceData) : fullPriceData[n].average = Zero
        /\ \A n \in 1..Len(appended) : appended[n].average = Zero
        /\ \A r \in (Len(base) + 1)..Len(report[Currency]) :
              report[Currency][r].date = "Date" \/ report[Currency][r].average = Zero
        /\ (pc = "loop2" /\ sheet = "open") =>
              /\ Len(fullPriceData) = AverageDays
              /\ BatchDates(fullPriceData, (k + 1)..Len(fullPriceData))
                    \subseteq DatesOf(report[Currency])
              /\ base = <<HeaderRow>> =>
                    Len(appended) = Cardinality(
                        BatchDates(fullPriceData, (k + 1)..Len(fullPriceData)))

\* A series of AverageDays days with a close on every day was merged into a
\* new sheet: AverageDays rows were appended, all with the sentinel average.
C26_Witness ==
    /\ pc = "loop2" /\ k = 0
    /\ Len(data) = AverageDays
    /\ j = AverageDays
    /\ base = <<HeaderRow>>
    /\ Len(appended) = AverageDays
    /\ Len(report[Currency]) = AverageDays + 1
    /\ \A r \in 2..Len(report[Currency]) : report[Currency][r].average = Zero

====
